---- MODULE Spec2Model ----
(***************************************************************************)
(* A model of mathpaste-gtk (src/mathpaste-gtk.py): the file codec         *)
(* (read_mathpaste_file / write_mathpaste_file), the JavaScript bridge of  *)
(* MathpasteView and the open/save workflow of MathpasteWindow and         *)
(* MathpasteApplication.                                                   *)
(*                                                                         *)
(* Text (a Python str) is a sequence of code points, bytes are a sequence  *)
(* of 0..255.  A file on disk is NoFile, a raw byte file, a zip archive    *)
(* (its entries), or a path the process may not open.                      *)
(***************************************************************************)
EXTENDS Integers, Sequences, FiniteSets, TLC

VARIABLES
    \* ---- MathpasteView
    _callback_dict,        \* {id: continuation}
    _callback_id_counter,  \* next value of itertools.count()
    js_queue,              \* scripts handed to run_javascript, not yet completed
    timers,                \* pending GLib.timeout_add(200, ...) retries, in order
    requests,              \* mathpaste-gtk-data:// requests not yet handled
    doc,                   \* the embedded mathpaste document
    \* ---- MathpasteWindow
    _current_filename,
    _current_filetype,
    _saved,
    title,
    alive,                 \* FALSE once the window is destroyed / app has quit
    \* ---- the world
    fs,                    \* path -> file
    budget,                \* user / document events still allowed (bounds the run)
    ev,                    \* what the most recent handler did (its observable outputs)
    invoked,               \* history: the continuations invoked so far, oldest first
    push_log,              \* history, kept in the runs of PushSpec: the pushes
                           \* submitted, those the document ran, and whether a
                           \* push ever failed
    \* ---- codec harness (read(write(...)) on drawn arguments)
    args,
    pc,
    result

vars == <<_callback_dict, _callback_id_counter, js_queue, timers, requests, doc,
          _current_filename, _current_filetype, _saved, title, alive,
          fs, budget, ev, invoked, push_log, args, pc, result>>

\* ------------------------------------------------------------------ bounds
MaxLen == 4        \* longest mathText the codec harness draws
MaxOps == 2        \* user / document events in one run of the application
MaxZipLen == 2     \* longest mathText the codec harness draws together with a drawing
MaxTail == 2       \* longest tail of a URI the document navigates to

None == "None"

\* ------------------------------------------------------------------ sequences
RECURSIVE Concat(_)
Concat(ss) == IF ss = <<>> THEN <<>> ELSE Head(ss) \o Concat(Tail(ss))

SeqsUpTo(S, n) == UNION {[1..k -> S] : k \in 0..n}

StartsWith(s, p) == Len(s) >= Len(p) /\ SubSeq(s, 1, Len(p)) = p

Take(s, n) == SubSeq(s, 1, IF Len(s) < n THEN Len(s) ELSE n)

\* ------------------------------------------------------------------ FileType
TEXT == "TEXT"
ZIP == "ZIP"
FileType == {TEXT, ZIP}

\* b'PK\x03\x04'
ZipMagic == <<80, 75, 3, 4>>
\* 'data:image/png;base64'
PngPrefix == <<100, 97, 116, 97, 58, 105, 109, 97, 103, 101, 47, 112, 110, 103,
               59, 98, 97, 115, 101, 54, 52>>
Comma == 44

\* the content of an archive entry zipfile cannot read without a password
Encrypted == <<-1>>

NoFile == [kind |-> "absent"]
Denied == [kind |-> "denied"]
RawFile(bytes) == [kind |-> "raw", bytes |-> bytes]
ZipFile(entries) == [kind |-> "zip", entries |-> entries]

\* ------------------------------------------------------------------ codecs
\* str.encode('utf-8') of one code point; <<>> stands for UnicodeEncodeError
\* (a lone surrogate cannot be encoded).
Utf8EncodeChar(c) ==
    IF c < 128 THEN <<c>>
    ELSE IF c < 2048 THEN <<192 + (c \div 64), 128 + (c % 64)>>
    ELSE IF c >= 55296 /\ c <= 57343 THEN <<>>
    ELSE IF c < 65536 THEN <<224 + (c \div 4096), 128 + ((c \div 64) % 64), 128 + (c % 64)>>
    ELSE <<240 + (c \div 262144), 128 + ((c \div 4096) % 64),
           128 + ((c \div 64) % 64), 128 + (c % 64)>>

Utf8Encode(text) ==
    IF \E i \in 1..Len(text) : Utf8EncodeChar(text[i]) = <<>>
    THEN [ok |-> FALSE, bytes |-> <<>>]
    ELSE [ok |-> TRUE, bytes |-> Concat([i \in 1..Len(text) |-> Utf8EncodeChar(text[i])])]

IsCont(b) == b >= 128 /\ b <= 191

\* bytes.decode('utf-8'), strict: the decoded text, or ok = FALSE (UnicodeDecodeError)
RECURSIVE Utf8Decode(_)
Utf8Decode(b) ==
    IF b = <<>> THEN [ok |-> TRUE, text |-> <<>>]
    ELSE LET b1 == b[1]
             n == IF b1 < 128 THEN 1
                  ELSE IF b1 >= 194 /\ b1 <= 223 THEN 2
                  ELSE IF b1 >= 224 /\ b1 <= 239 THEN 3
                  ELSE IF b1 >= 240 /\ b1 <= 244 THEN 4
                  ELSE 0
         IN  IF n = 0 \/ Len(b) < n \/ \E i \in 2..n : ~IsCont(b[i])
             THEN [ok |-> FALSE, text |-> <<>>]
             ELSE LET c == CASE n = 1 -> b1
                             [] n = 2 -> (b1 - 192) * 64 + (b[2] - 128)
                             [] n = 3 -> (b1 - 224) * 4096 + (b[2] - 128) * 64 + (b[3] - 128)
                             [] n = 4 -> (b1 - 240) * 262144 + (b[2] - 128) * 4096
                                         + (b[3] - 128) * 64 + (b[4] - 128)
                      bad == \/ (n = 3 /\ (c < 2048 \/ (c >= 55296 /\ c <= 57343)))
                             \/ (n = 4 /\ (c < 65536 \/ c > 1114111))
                      rest == Utf8Decode(SubSeq(b, n + 1, Len(b)))
                  IN  IF bad \/ ~rest.ok THEN [ok |-> FALSE, text |-> <<>>]
                      ELSE [ok |-> TRUE, text |-> <<c>> \o rest.text]

\* str.encode('ascii') / bytes.decode('ascii')
AsciiEncode(text) ==
    IF \A i \in 1..Len(text) : text[i] < 128
    THEN [ok |-> TRUE, bytes |-> text] ELSE [ok |-> FALSE, bytes |-> <<>>]

AsciiDecode(b) ==
    IF \A i \in 1..Len(b) : b[i] < 128
    THEN [ok |-> TRUE, text |-> b] ELSE [ok |-> FALSE, text |-> <<>>]

\* os.linesep of the platform the GTK application runs on
linesep == <<10>>

\* what a text-mode file object (newline=None) writes for a str: '\n' -> os.linesep
TextModeWrite(text) ==
    Concat([i \in 1..Len(text) |-> IF text[i] = 10 THEN linesep ELSE <<text[i]>>])

\* what a text-mode file object (newline=None) returns from read():
\* universal newlines, '\r\n' and '\r' become '\n'
RECURSIVE TextModeRead(_)
TextModeRead(text) ==
    IF text = <<>> THEN <<>>
    ELSE IF text[1] = 13
         THEN IF Len(text) >= 2 /\ text[2] = 10
              THEN <<10>> \o TextModeRead(SubSeq(text, 3, Len(text)))
              ELSE <<10>> \o TextModeRead(Tail(text))
         ELSE <<text[1]>> \o TextModeRead(Tail(text))

\* the position of a character in the base64 alphabet, -1 for any other character
B64Index(c) ==
    IF c >= 65 /\ c <= 90 THEN c - 65
    ELSE IF c >= 97 /\ c <= 122 THEN c - 71
    ELSE IF c >= 48 /\ c <= 57 THEN c + 4
    ELSE IF c = 43 THEN 62
    ELSE IF c = 47 THEN 63
    ELSE -1

RECURSIVE B64Quads(_)
B64Quads(q) ==
    IF q = <<>> THEN [ok |-> TRUE, bytes |-> <<>>]
    ELSE LET a == B64Index(q[1])
             b == B64Index(q[2])
             c == B64Index(q[3])
             d == B64Index(q[4])
             last == Len(q) = 4
             rest == B64Quads(SubSeq(q, 5, Len(q)))
             n == a * 262144 + b * 4096 + (IF c < 0 THEN 0 ELSE c) * 64 + (IF d < 0 THEN 0 ELSE d)
             out == IF q[3] = 61 THEN <<n \div 65536>>
                    ELSE IF q[4] = 61 THEN <<n \div 65536, (n \div 256) % 256>>
                    ELSE <<n \div 65536, (n \div 256) % 256, n % 256>>
         IN  IF a < 0 \/ b < 0
                \/ (c < 0 /\ ~(last /\ q[3] = 61 /\ q[4] = 61))
                \/ (d < 0 /\ ~(last /\ q[4] = 61))
                \/ ~rest.ok
             THEN [ok |-> FALSE, bytes |-> <<>>]
             ELSE [ok |-> TRUE, bytes |-> out \o rest.bytes]

\* base64.b64decode(s): characters outside the alphabet are discarded, then the
\* padded quads are decoded; ok = FALSE stands for binascii.Error
b64decode(s) ==
    LET kept == SelectSeq(s, LAMBDA c : B64Index(c) >= 0 \/ c = 61)
    IN  IF Len(kept) % 4 # 0 THEN [ok |-> FALSE, bytes |-> <<>>] ELSE B64Quads(kept)

\* str.split(','): the pieces between commas
RECURSIVE SplitComma(_)
SplitComma(s) ==
    IF \A i \in 1..Len(s) : s[i] # Comma THEN <<s>>
    ELSE LET i == CHOOSE k \in 1..Len(s) : s[k] = Comma /\ \A j \in 1..(k - 1) : s[j] # Comma
         IN  <<SubSeq(s, 1, i - 1)>> \o SplitComma(SubSeq(s, i + 1, Len(s)))

\* ------------------------------------------------------------------ files
\* the bytes of an archive without entries: an end-of-central-directory record alone
EmptyZipBytes == <<80, 75, 5, 6>> \o [i \in 1..18 |-> 0]

\* file.read(4) of a file opened 'rb': an archive with an entry starts with the
\* local-file-header signature
Magic(f) ==
    IF f.kind = "raw" THEN Take(f.bytes, 4)
    ELSE IF DOMAIN f.entries = {} THEN Take(EmptyZipBytes, 4)
    ELSE ZipMagic

ReadResult(status, filetype, math, image_string) ==
    [status |-> status, filetype |-> filetype, math |-> math, image_string |-> image_string]

ReadError(status) == ReadResult(status, None, <<>>, <<>>)

\* read_mathpaste_file(filename): (filetype, math, image_string), or the exception
read_mathpaste_file(files, filename) ==
    LET f == files[filename]
    IN  IF f.kind \in {"absent", "denied"} THEN ReadError("OSError")
        ELSE IF Magic(f) = ZipMagic
        THEN IF f.kind = "raw" THEN ReadError("BadZipFile")
             ELSE IF "math.txt" \notin DOMAIN f.entries
             THEN ReadError("NotAMathPasteGtkZipFileError")
             ELSE IF f.entries["math.txt"] = Encrypted THEN ReadError("RuntimeError")
             ELSE LET m == Utf8Decode(f.entries["math.txt"])
                      hasDrawing == "drawing-data.txt" \in DOMAIN f.entries
                      d == IF hasDrawing THEN AsciiDecode(f.entries["drawing-data.txt"])
                           ELSE [ok |-> TRUE, text |-> <<>>]
                  IN  IF ~m.ok \/ ~d.ok THEN ReadError("UnicodeError")
                      ELSE ReadResult("ok", ZIP, m.text, d.text)
        ELSE LET m == Utf8Decode(IF f.kind = "zip" THEN EmptyZipBytes ELSE f.bytes)
             IN  IF ~m.ok THEN ReadError("UnicodeError")
                 ELSE ReadResult("ok", TEXT, TextModeRead(m.text), <<>>)

WriteResult(status, files) == [status |-> status, files |-> files]

\* mutant: the drawing entries are written whether or not something was drawn
write_mathpaste_file_always_draws(files, filename, filetype, math, image_string, image_dataurl) ==
    IF filetype \notin FileType THEN WriteResult("NotImplementedError", files)
    ELSE IF files[filename].kind = "denied" THEN WriteResult("OSError", files)
    ELSE IF filetype = TEXT
    THEN LET e == Utf8Encode(TextModeWrite(math))
         IN  IF e.ok THEN WriteResult("ok", [files EXCEPT ![filename] = RawFile(e.bytes)])
             ELSE WriteResult("UnicodeError", [files EXCEPT ![filename] = RawFile(<<>>)])
    ELSE LET m == Utf8Encode(math)
             z1 == [n \in {"math.txt"} |-> m.bytes]
             d == AsciiEncode(image_string)
             z2 == [n \in {"math.txt", "drawing-data.txt"} |->
                        IF n = "math.txt" THEN m.bytes ELSE d.bytes]
             parts == SplitComma(image_dataurl)
             png == b64decode(parts[2])
             z3 == [n \in {"math.txt", "drawing-data.txt", "drawing.png"} |->
                        CASE n = "math.txt" -> m.bytes
                          [] n = "drawing-data.txt" -> d.bytes
                          [] OTHER -> png.bytes]
             put(z) == [files EXCEPT ![filename] = ZipFile(z)]
         IN  IF ~m.ok THEN WriteResult("UnicodeError", put(<<>>))
             ELSE IF ~d.ok THEN WriteResult("UnicodeError", put(z1))
             ELSE IF Len(parts) # 2 THEN WriteResult("ValueError", put(z2))
             ELSE IF parts[1] # PngPrefix THEN WriteResult("AssertionError", put(z2))
             ELSE IF ~png.ok THEN WriteResult("binascii.Error", put(z2))
             ELSE WriteResult("ok", put(z3))

\* write_mathpaste_file(filename, filetype, math, image_string, image_dataurl):
\* the file system afterwards, and "ok" or the exception raised
write_mathpaste_file(files, filename, filetype, math, image_string, image_dataurl) ==
    IF filetype \notin FileType THEN WriteResult("NotImplementedError", files)
    ELSE IF files[filename].kind = "denied" THEN WriteResult("OSError", files)
    ELSE IF filetype = TEXT
    THEN LET e == Utf8Encode(TextModeWrite(math))
         IN  IF e.ok THEN WriteResult("ok", [files EXCEPT ![filename] = RawFile(e.bytes)])
             ELSE WriteResult("UnicodeError", [files EXCEPT ![filename] = RawFile(<<>>)])
    ELSE LET m == Utf8Encode(math)
             z1 == [n \in {"math.txt"} |-> m.bytes]
             d == AsciiEncode(image_string)
             z2 == [n \in {"math.txt", "drawing-data.txt"} |->
                        IF n = "math.txt" THEN m.bytes ELSE d.bytes]
             parts == SplitComma(image_dataurl)
             png == b64decode(parts[2])
             z3 == [n \in {"math.txt", "drawing-data.txt", "drawing.png"} |->
                        CASE n = "math.txt" -> m.bytes
                          [] n = "drawing-data.txt" -> d.bytes
                          [] OTHER -> png.bytes]
             put(z) == [files EXCEPT ![filename] = ZipFile(z)]
         IN  IF ~m.ok THEN WriteResult("UnicodeError", put(<<>>))
             ELSE IF image_string = <<>> THEN WriteResult("ok", put(z1))
             ELSE IF ~d.ok THEN WriteResult("UnicodeError", put(z1))
             ELSE IF Len(parts) # 2 THEN WriteResult("ValueError", put(z2))
             ELSE IF parts[1] # PngPrefix THEN WriteResult("AssertionError", put(z2))
             ELSE IF ~png.ok THEN WriteResult("binascii.Error", put(z2))
             ELSE WriteResult("ok", put(z3))

\* ------------------------------------------------------------------ the world
\* paths the save dialog can return, and paths an open can name
SavePaths == {"a", "ro"}
OpenPaths == {"a", "text.txt", "draw.zip", "latin1.txt", "damaged.zip",
              "foreign.zip", "locked.zip"}
Paths == SavePaths \cup OpenPaths

\* the application's arguments for a second instance: do_open names these
RemotePaths == {"text.txt", "draw.zip", "damaged.zip"}

\* what the user can type and draw in the document
Maths == {<<>>, <<120>>}
Drawings == {<<>>, <<105>>}

\* canvas.toDataURL() of the document for a drawing (the document's own code)
DataUrlOf(image) ==
    PngPrefix \o <<Comma>> \o (IF image = <<>> THEN <<65, 65, 61, 61>> ELSE <<97, 81, 61, 61>>)

\* mathpaste.getMathAndImage()
getMathAndImage(d) ==
    [math |-> d.math, imageString |-> d.image, imageDataUrl |-> DataUrlOf(d.image)]

InitialFiles ==
    [p \in Paths |->
        CASE p = "a" -> NoFile
          [] p = "ro" -> Denied
          [] p = "text.txt" -> RawFile(<<120>>)
          [] p = "draw.zip" -> ZipFile([n \in {"math.txt", "drawing-data.txt", "drawing.png"} |->
                                   CASE n = "math.txt" -> <<120>>
                                     [] n = "drawing-data.txt" -> <<105>>
                                     [] OTHER -> <<105>>])
          [] p = "latin1.txt" -> RawFile(<<233>>)
          [] p = "damaged.zip" -> RawFile(ZipMagic)
          [] p = "foreign.zip" -> ZipFile([n \in {"readme.txt"} |-> <<120>>])
          [] OTHER -> ZipFile([n \in {"math.txt"} |-> Encrypted])]

\* PASTE_URL_REGEX on the text of the URL entry; a URL is its origin part and its
\* fragment, the fragment a kind and a body separated by ':'
PASTE_URL_REGEX(url) ==
    /\ url.origin \in {"https://akuli.github.io/mathpaste/", "https://other.github.io/mathpaste/"}
    /\ url.kind \in {"fullmath", "saved"}
    /\ url.body # <<>>

EmptyUrl == [origin |-> "", kind |-> "", body |-> <<>>]
Urls == {[origin |-> "https://akuli.github.io/mathpaste/", kind |-> "fullmath", body |-> <<120>>],
         [origin |-> "https://example.com/", kind |-> "fullmath", body |-> <<120>>]}

\* ------------------------------------------------------------------ user input
NoSaveDialog == [response |-> "NONE", filename |-> None, filter |-> None]
SaveDialogInputs ==
    {[response |-> "CANCEL", filename |-> None, filter |-> None]}
    \cup {[response |-> "OK", filename |-> p, filter |-> t] : p \in SavePaths, t \in FileType}

NoOpenDialog == [response |-> "NONE", filename |-> None]
OpenDialogInputs ==
    {[response |-> "CANCEL", filename |-> None]}
    \cup {[response |-> "OK", filename |-> p] : p \in OpenPaths}

NoUrlDialog == [response |-> "NONE", text |-> EmptyUrl]
UrlDialogInputs ==
    {[response |-> "CANCEL", text |-> EmptyUrl]} \cup {[response |-> "OK", text |-> u] : u \in Urls}

QuestionInputs == {"YES", "NO", "CANCEL"}

Input(q, sd, od, ud) == [question |-> q, save_dialog |-> sd, open_dialog |-> od, url_dialog |-> ud]

\* ------------------------------------------------------------------ state
NoJs == [kind |-> "none", math |-> <<>>, image |-> <<>>, id |-> -1,
         hash |-> [kind |-> "", body |-> <<>>]]
InitJs == [NoJs EXCEPT !.kind = "init"]
PushJs(math, image) == [NoJs EXCEPT !.kind = "push", !.math = math, !.image = image]
PullJs(id) == [NoJs EXCEPT !.kind = "pull", !.id = id]
HashJs(hash) == [NoJs EXCEPT !.kind = "hash", !.hash = hash]

NoPushes == [submitted |-> <<>>, landed |-> <<>>, failed |-> FALSE]
\* the run keeps its history: the pushes, and the files its saves were requested for
Logging == pc = "pushes"

NoObj == [math |-> <<>>, imageString |-> <<>>, imageDataUrl |-> <<>>]
NoCont == [tag |-> -1, id |-> -1, obj |-> NoObj]
NoRequest == [id |-> -1, body |-> [json_ok |-> FALSE, obj |-> NoObj]]

\* the window's current file, as a pair
FileOf(s) == [filename |-> s._current_filename, filetype |-> s._current_filetype]
\* no file is recorded
NoTarget == [filename |-> None, filetype |-> None]
\* save_as has not replaced the current file in this handler
NotReplaced == [chosen |-> FALSE, filename |-> None, filetype |-> None]

\* what a handler did: the dialogs it ran (with the user's answers), the save
\* callbacks it called, the continuation it invoked, whether it answered the
\* request, the exception that left it, and the script it was about
Ev0 == [handler |-> "init", shown |-> <<>>, calls |-> <<>>, cont |-> NoCont,
        finished |-> FALSE, raised |-> None, js |-> NoJs, ok |-> FALSE,
        retried |-> FALSE, pushed |-> 0, edits |-> 0, notified |-> 0,
        path |-> None, request |-> NoRequest, replaced |-> NotReplaced]

St == [_callback_dict |-> _callback_dict, _callback_id_counter |-> _callback_id_counter,
       js_queue |-> js_queue, timers |-> timers, requests |-> requests, doc |-> doc,
       _current_filename |-> _current_filename, _current_filetype |-> _current_filetype,
       _saved |-> _saved, title |-> title, alive |-> alive, fs |-> fs,
       budget |-> budget, ev |-> ev, invoked |-> invoked, push_log |-> push_log]

Begin(handler) == [St EXCEPT !.ev = [Ev0 EXCEPT !.handler = handler]]

Commit(s) ==
    /\ _callback_dict' = s._callback_dict
    /\ _callback_id_counter' = s._callback_id_counter
    /\ js_queue' = s.js_queue
    /\ timers' = s.timers
    /\ requests' = s.requests
    /\ doc' = s.doc
    /\ _current_filename' = s._current_filename
    /\ _current_filetype' = s._current_filetype
    /\ _saved' = s._saved
    /\ title' = s.title
    /\ alive' = s.alive
    /\ fs' = s.fs
    /\ budget' = s.budget
    /\ ev' = s.ev
    /\ invoked' = s.invoked
    /\ push_log' = s.push_log
    /\ UNCHANGED <<args, pc, result>>

Dialog(kind, op, filename, message, response) ==
    [dialog |-> kind, op |-> op, filename |-> filename, message |-> message,
     response |-> response]

\* dialog.run() of a modal dialog: the handler goes on with the user's answer
Show(s, d) == [s EXCEPT !.ev.shown = Append(@, d)]

\* ------------------------------------------------------------------ MathpasteView
\* WebView.run_javascript(js, None, done): the script waits for the document
run_javascript(s, js, done) ==
    [s EXCEPT !.js_queue = Append(@, [js |-> js, done |-> done, retried |-> FALSE])]

_run_javascript_until_succeeds(s, js) == run_javascript(s, js, "retry")

show_math_and_image(s, math, image_string) ==
    _run_javascript_until_succeeds(
        [s EXCEPT !.ev.pushed = @ + 1,
                  !.push_log.submitted = IF Logging THEN Append(@, PushJs(math, image_string))
                                         ELSE @],
        PushJs(math, image_string))

show_math_from_window_location_hash(s, hash_, done_callback) ==
    run_javascript(s, HashJs(hash_), done_callback)

\* mutant: the pull script is submitted the way pushes are, with the retrying
\* done callback
get_showing_math_and_image_until_succeeds(s, callback) ==
    LET id_ == s._callback_id_counter
        cont == [callback |-> callback, tag |-> id_,
                 target |-> IF Logging THEN FileOf(s) ELSE NoTarget,
                 replaced |-> IF Logging THEN s.ev.replaced ELSE NotReplaced]
        d == s._callback_dict
    IN  _run_javascript_until_succeeds(
            [s EXCEPT !._callback_id_counter = @ + 1,
                      !._callback_dict = [i \in DOMAIN d \cup {id_} |->
                                             IF i = id_ THEN cont ELSE d[i]]],
            PullJs(id_))

\* the continuation is stored under a fresh id; with it the runs of PushSpec
\* keep, for the properties of save, the window's file at the time of the request
\* and the file a save_as of this handler replaced (callback_for_view reads
\* neither)
get_showing_math_and_image(s, callback) ==
    LET id_ == s._callback_id_counter
        cont == [callback |-> callback, tag |-> id_,
                 target |-> IF Logging THEN FileOf(s) ELSE NoTarget,
                 replaced |-> IF Logging THEN s.ev.replaced ELSE NotReplaced]
        d == s._callback_dict
    IN  run_javascript(
            [s EXCEPT !._callback_id_counter = @ + 1,
                      !._callback_dict = [i \in DOMAIN d \cup {id_} |->
                                             IF i = id_ THEN cont ELSE d[i]]],
            PullJs(id_), "none")

\* ------------------------------------------------------------------ MathpasteWindow
_update_title(s) ==
    [s EXCEPT !.title =
        [name |-> IF s._current_filename = None THEN "New math" ELSE s._current_filename,
         paren |-> (IF s._current_filetype = TEXT THEN <<"text only">> ELSE <<>>)
                   \o (IF ~s._saved THEN <<"modified">> ELSE <<>>)]]

\* mutant: only the name is set
set_current_file_name_only(s, filename, filetype) ==
    _update_title([s EXCEPT !._current_filename = filename])

set_current_file(s, filename, filetype) ==
    _update_title([s EXCEPT !._current_filename = filename, !._current_filetype = filetype])

set_saved(s, boolean) == _update_title([s EXCEPT !._saved = boolean])

_show_open_or_save_error(s, open_or_save, filename, message) ==
    Show(s, Dialog("error", open_or_save, filename, message, "OK"))

\* mutant: the window takes the path as its current file before the file is read
open_file_names_file_first(s, path) ==
    LET r == read_mathpaste_file(s.fs, path)
        s0 == _update_title([s EXCEPT !._current_filename = path])
        error(message) == _show_open_or_save_error(s0, "open", path, message)
    IN  CASE r.status = "ok" ->
                 set_saved(
                     set_current_file(show_math_and_image(s, r.math, r.image_string),
                                      path, r.filetype),
                     TRUE)
          [] r.status = "OSError" -> error("str(e)")
          [] r.status = "UnicodeError" -> error("The text doesn't seem to be encoded in UTF-8.")
          [] r.status = "BadZipFile" -> error("The zip file seems to be damaged.")
          [] r.status = "NotAMathPasteGtkZipFileError" ->
                 error("The zip file is not compatible with MathPaste GTK.")
          [] OTHER -> error("An unexpected error occurred.")

open_file(s, path) ==
    LET r == read_mathpaste_file(s.fs, path)
        error(message) == _show_open_or_save_error(s, "open", path, message)
    IN  CASE r.status = "ok" ->
                 set_saved(
                     set_current_file(show_math_and_image(s, r.math, r.image_string),
                                      path, r.filetype),
                     TRUE)
          [] r.status = "OSError" -> error("str(e)")
          [] r.status = "UnicodeError" -> error("The text doesn't seem to be encoded in UTF-8.")
          [] r.status = "BadZipFile" -> error("The zip file seems to be damaged.")
          [] r.status = "NotAMathPasteGtkZipFileError" ->
                 error("The zip file is not compatible with MathPaste GTK.")
          [] OTHER -> error("An unexpected error occurred.")

open_math_url(s, url) ==
    show_math_from_window_location_hash(
        s, [kind |-> url.kind, body |-> url.body], "set_saved_true")

\* ------------------------------------------------------------------ MathpasteApplication
\* on_open's callback: the "Open Math" file dialog, then open_file
on_open_callback(s, inp) ==
    LET d == inp.open_dialog
        s1 == Show(s, Dialog("open", "open", d.filename, "Open Math", d.response))
    IN  IF d.response = "OK" THEN open_file(s1, d.filename) ELSE s1

\* on_openurl's callback: the URL dialog, whose OK button is sensitive only for a
\* text that matches PASTE_URL_REGEX
on_openurl_callback(s, inp) ==
    LET d == inp.url_dialog
        sensitive == PASTE_URL_REGEX(d.text)
        s1 == Show(s, Dialog("url", "open", None, "Open MathPaste URL", d.response))
    IN  IF d.response = "OK" /\ sensitive THEN open_math_url(s1, d.text) ELSE s1

\* callback(): the callables handed to save, save_as and save_if_user_wants_to
Call(s, callback, inp) ==
    LET s1 == [s EXCEPT !.ev.calls = Append(@, callback)]
    IN  CASE callback = "destroy" -> [s1 EXCEPT !.alive = FALSE]
          [] callback = "open" -> on_open_callback(s1, inp)
          [] callback = "openurl" -> on_openurl_callback(s1, inp)
          [] OTHER -> s1

RECURSIVE save(_, _, _)
save_as(s, callback, inp) ==
    LET d == inp.save_dialog
        s1 == Show(s, Dialog("save_as", "save", d.filename, "Save Math", d.response))
        s2 == IF ~Logging THEN s1
              ELSE [s1 EXCEPT !.ev.replaced = [chosen |-> TRUE,
                                               filename |-> s._current_filename,
                                               filetype |-> s._current_filetype]]
    IN  IF d.response = "OK"
        THEN save(set_current_file(s2, d.filename, d.filter), callback, inp)
        ELSE s1

save(s, callback, inp) ==
    IF s._current_filename = None THEN save_as(s, callback, inp)
    ELSE get_showing_math_and_image(s, callback)

\* mutant: the handler of unexpected exceptions shows its dialog and goes on
callback_for_view_without_return(s, callback, dictionary, inp) ==
    LET w == write_mathpaste_file(s.fs, s._current_filename, s._current_filetype,
                                  dictionary.math, dictionary.imageString,
                                  dictionary.imageDataUrl)
        s1 == [s EXCEPT !.fs = w.files, !.ev.ok = (w.status = "ok")]
        error(message) == _show_open_or_save_error(s1, "save", s._current_filename, message)
    IN  IF w.status = "OSError" THEN error("str(e)")
        ELSE LET s2 == set_saved(IF w.status # "ok"
                                 THEN error("An unexpected error occurred.") ELSE s1, TRUE)
                 s3 == IF s._current_filetype = TEXT /\ dictionary.imageString # <<>>
                       THEN Show(s2, Dialog("warning", "save", s._current_filename,
                                            "Your drawing wasn't saved", "OK"))
                       ELSE s2
             IN  Call(s3, callback, inp)

\* mutant: the warning is shown for every save to a text file
callback_for_view_warns_always(s, callback, dictionary, inp) ==
    LET w == write_mathpaste_file(s.fs, s._current_filename, s._current_filetype,
                                  dictionary.math, dictionary.imageString,
                                  dictionary.imageDataUrl)
        s1 == [s EXCEPT !.fs = w.files, !.ev.ok = (w.status = "ok")]
        error(message) == _show_open_or_save_error(s1, "save", s._current_filename, message)
    IN  IF w.status = "OSError" THEN error("str(e)")
        ELSE IF w.status # "ok" THEN error("An unexpected error occurred.")
        ELSE LET s2 == set_saved(s1, TRUE)
                 s3 == IF s._current_filetype = TEXT
                       THEN Show(s2, Dialog("warning", "save", s._current_filename,
                                            "Your drawing wasn't saved", "OK"))
                       ELSE s2
             IN  Call(s3, callback, inp)

\* save's callback_for_view(dictionary), run when the pull is answered
callback_for_view(s, callback, dictionary, inp) ==
    LET w == write_mathpaste_file(s.fs, s._current_filename, s._current_filetype,
                                  dictionary.math, dictionary.imageString,
                                  dictionary.imageDataUrl)
        s1 == [s EXCEPT !.fs = w.files, !.ev.ok = (w.status = "ok")]
        error(message) == _show_open_or_save_error(s1, "save", s._current_filename, message)
    IN  IF w.status = "OSError" THEN error("str(e)")
        ELSE IF w.status # "ok" THEN error("An unexpected error occurred.")
        ELSE LET s2 == set_saved(s1, TRUE)
                 s3 == IF s._current_filetype = TEXT /\ dictionary.imageString # <<>>
                       THEN Show(s2, Dialog("warning", "save", s._current_filename,
                                            "Your drawing wasn't saved", "OK"))
                       ELSE s2
             IN  Call(s3, callback, inp)

\* mutant: every answer but YES goes ahead
save_if_user_wants_to_unless_yes(s, callback, inp) ==
    IF s._saved THEN Call(s, callback, inp)
    ELSE LET s1 == Show(s, Dialog("question", "save", s._current_filename,
                                  "Do you want to save?", inp.question))
         IN  IF inp.question = "YES" THEN save(s1, callback, inp)
             ELSE Call(s1, callback, inp)

save_if_user_wants_to(s, callback, inp) ==
    IF s._saved THEN Call(s, callback, inp)
    ELSE LET s1 == Show(s, Dialog("question", "save", s._current_filename,
                                  "Do you want to save?", inp.question))
         IN  IF inp.question = "YES" THEN save(s1, callback, inp)
             ELSE IF inp.question = "NO" THEN Call(s1, callback, inp)
             ELSE s1

\* mutant: the continuations are kept as a queue and the oldest one is taken,
\* whatever id the response carries
_handle_data_oldest_first(s, request, inp) ==
    IF ~request.body.json_ok THEN [s EXCEPT !.ev.raised = "JSONDecodeError"]
    ELSE IF DOMAIN s._callback_dict = {} THEN [s EXCEPT !.ev.raised = "KeyError"]
    ELSE LET d == s._callback_dict
             first == CHOOSE i \in DOMAIN d : \A j \in DOMAIN d : i <= j
             cont == d[first]
             s1 == [s EXCEPT !._callback_dict = [i \in DOMAIN d \ {first} |-> d[i]],
                             !.ev.cont = [tag |-> cont.tag, id |-> request.id,
                                          obj |-> request.body.obj],
                             !.invoked = Append(@, cont.tag)]
             s2 == callback_for_view(s1, cont.callback, request.body.obj, inp)
         IN  [s2 EXCEPT !.ev.finished = TRUE]

\* mutant: the continuation is looked up with [] and stays registered
_handle_data_without_pop(s, request, inp) ==
    IF ~request.body.json_ok THEN [s EXCEPT !.ev.raised = "JSONDecodeError"]
    ELSE IF request.id \notin DOMAIN s._callback_dict THEN [s EXCEPT !.ev.raised = "KeyError"]
    ELSE LET cont == s._callback_dict[request.id]
             s1 == [s EXCEPT !.ev.cont = [tag |-> cont.tag, id |-> request.id,
                                          obj |-> request.body.obj],
                             !.invoked = Append(@, cont.tag)]
             s2 == callback_for_view(s1, cont.callback, request.body.obj, inp)
         IN  [s2 EXCEPT !.ev.finished = TRUE]

\* _handle_data_from_javascript(request): request is the id and the body of the
\* URI; body.json_ok says whether json.loads accepts the unquoted body
_handle_data_from_javascript(s, request, inp) ==
    IF ~request.body.json_ok THEN [s EXCEPT !.ev.raised = "JSONDecodeError"]
    ELSE IF request.id \notin DOMAIN s._callback_dict THEN [s EXCEPT !.ev.raised = "KeyError"]
    ELSE LET d == s._callback_dict
             cont == d[request.id]
             s1 == [s EXCEPT !._callback_dict = [i \in DOMAIN d \ {request.id} |-> d[i]],
                             !.ev.cont = [tag |-> cont.tag, id |-> request.id,
                                          obj |-> request.body.obj],
                             !.invoked = Append(@, cont.tag)]
             s2 == callback_for_view(s1, cont.callback, request.body.obj, inp)
         IN  [s2 EXCEPT !.ev.finished = TRUE]

\* _on_title_changed: the title is one of the two sentinels -> change_callback(),
\* which the window set to set_saved(False)
_on_title_changed(s) ==
    IF s.doc.title \in {"modified", "modified2"}
    THEN set_saved([s EXCEPT !.ev.notified = @ + 1], FALSE)
    ELSE s

\* ------------------------------------------------------------------ the document
Json(obj) == [json_ok |-> TRUE, obj |-> obj]
Undecodable == [json_ok |-> FALSE, obj |-> NoObj]

\* a state object whose raster is not a PNG data URL
ForeignRaster ==
    [math |-> <<120>>, imageString |-> <<105>>,
     imageDataUrl |-> <<100, 97, 116, 97, 58, 105, 109, 97, 103, 101, 47, 106, 112, 103,
                        59, 98, 97, 115, 101, 54, 52, 44, 97, 81, 61, 61>>]

\* the change callback of the init script: the title goes to the other sentinel
ToggleTitle(d) ==
    [d EXCEPT !.title = IF @ = "modified" THEN "modified2" ELSE "modified"]

\* an edit runs every registered change callback; each title change is
\* notify::title on the view
RECURSIVE NotifyChange(_, _)
NotifyChange(s, hooks) ==
    IF hooks = 0 THEN s
    ELSE NotifyChange(_on_title_changed([s EXCEPT !.doc = ToggleTitle(@)]), hooks - 1)

\* the document runs a script that reached it
Execute(s, js) ==
    CASE js.kind = "init" ->
             [s EXCEPT !.doc.hooks = @ + 1, !.doc.use_local_storage = FALSE]
      [] js.kind = "push" ->
             [s EXCEPT !.doc.math = js.math, !.doc.image = js.image]
      [] js.kind = "pull" ->
             [s EXCEPT !.requests = @ \cup {[id |-> js.id,
                                             body |-> Json(getMathAndImage(s.doc))]}]
      [] js.kind = "hash" ->
             [s EXCEPT !.doc.math = js.hash.body, !.doc.image = <<>>]
      [] OTHER -> s

\* mutant: a failed script is given up, no timer is set
done_callback_gives_up(s, entry, had_error) ==
    CASE entry.done = "set_saved_true" ->
             IF had_error THEN s ELSE set_saved(s, TRUE)
      [] OTHER -> s

\* mutant: the retry is scheduled without looking at gtask.had_error()
done_callback_always_retries(s, entry, had_error) ==
    CASE entry.done = "retry" -> [s EXCEPT !.timers = Append(@, entry.js)]
      [] entry.done = "set_saved_true" ->
             IF had_error THEN s ELSE set_saved(s, TRUE)
      [] OTHER -> s

\* mutant: a failure schedules the retry and also resubmits at once
done_callback_retries_twice(s, entry, had_error) ==
    CASE entry.done = "retry" ->
             IF had_error
             THEN _run_javascript_until_succeeds(
                      [s EXCEPT !.timers = Append(@, entry.js)], entry.js)
             ELSE s
      [] entry.done = "set_saved_true" ->
             IF had_error THEN s ELSE set_saved(s, TRUE)
      [] OTHER -> s

\* the done callbacks given to run_javascript, called with gtask.had_error()
done_callback(s, entry, had_error) ==
    CASE entry.done = "retry" ->
             IF had_error THEN [s EXCEPT !.timers = Append(@, entry.js)] ELSE s
      [] entry.done = "set_saved_true" ->
             IF had_error THEN s ELSE set_saved(s, TRUE)
      [] OTHER -> s

\* ------------------------------------------------------------------ actions
Spend(s) == [s EXCEPT !.budget = @ - 1]

Running == alive /\ pc \in {"gui", "pushes"}

on_save ==
    /\ Running /\ budget > 0
    /\ \E sd \in (IF _current_filename = None THEN SaveDialogInputs ELSE {NoSaveDialog}) :
           Commit(Spend(save(Begin("on_save"), "none",
                             Input("NONE", sd, NoOpenDialog, NoUrlDialog))))

on_saveas ==
    /\ Running /\ budget > 0
    /\ \E sd \in SaveDialogInputs :
           Commit(Spend(save_as(Begin("on_saveas"), "none",
                                Input("NONE", sd, NoOpenDialog, NoUrlDialog))))

\* the dialogs save_if_user_wants_to(callback) runs in the current state are the
\* ones the input answers
Consumed(callback, q, sd, od, ud) ==
    LET calls == _saved \/ q = "NO"
        saves == ~_saved /\ q = "YES" /\ _current_filename = None
    IN  /\ (sd = NoSaveDialog) <=> ~saves
        /\ (od = NoOpenDialog) <=> ~(calls /\ callback = "open")
        /\ (ud = NoUrlDialog) <=> ~(calls /\ callback = "openurl")

on_open ==
    /\ Running /\ budget > 0
    /\ \E q \in (IF _saved THEN {"NONE"} ELSE QuestionInputs) :
       \E sd \in SaveDialogInputs \cup {NoSaveDialog} :
       \E od \in OpenDialogInputs \cup {NoOpenDialog} :
           /\ Consumed("open", q, sd, od, NoUrlDialog)
           /\ Commit(Spend(save_if_user_wants_to(Begin("on_open"), "open",
                                                 Input(q, sd, od, NoUrlDialog))))

on_openurl ==
    /\ Running /\ budget > 0
    /\ \E q \in (IF _saved THEN {"NONE"} ELSE QuestionInputs) :
       \E sd \in SaveDialogInputs \cup {NoSaveDialog} :
       \E ud \in UrlDialogInputs \cup {NoUrlDialog} :
           /\ Consumed("openurl", q, sd, NoOpenDialog, ud)
           /\ Commit(Spend(save_if_user_wants_to(Begin("on_openurl"), "openurl",
                                                 Input(q, sd, NoOpenDialog, ud))))

_on_user_wants_to_close_the_window ==
    /\ Running /\ budget > 0
    /\ \E q \in (IF _saved THEN {"NONE"} ELSE QuestionInputs) :
       \E sd \in SaveDialogInputs \cup {NoSaveDialog} :
           /\ Consumed("destroy", q, sd, NoOpenDialog, NoUrlDialog)
           /\ Commit(Spend(save_if_user_wants_to(Begin("delete-event"), "destroy",
                                                 Input(q, sd, NoOpenDialog, NoUrlDialog))))

on_quit ==
    /\ Running /\ budget > 0
    /\ Commit(Spend([Begin("on_quit") EXCEPT !.alive = FALSE]))

\* do_open of the running application: activate(), then window.open_file
do_open ==
    /\ Running /\ budget > 0
    /\ \E path \in RemotePaths :
           Commit(Spend(open_file([Begin("do_open") EXCEPT !.ev.path = path], path)))

\* the page has loaded: the mathpaste object exists from now on
DocLoaded ==
    /\ Running /\ ~doc.ready
    /\ Commit([Begin("loaded") EXCEPT !.doc.ready = TRUE])

\* the user types or draws in the document
DocEdit ==
    /\ Running /\ budget > 0 /\ doc.ready
    /\ \E m \in Maths, i \in Drawings :
           /\ <<m, i>> # <<doc.math, doc.image>>
           /\ Commit(Spend(NotifyChange(
                  [Begin("edit") EXCEPT !.doc.math = m, !.doc.image = i, !.ev.edits = 1],
                  doc.hooks)))

\* the document navigates to a mathpaste-gtk-data:// URI that no pull script of
\* this moment produced: a repeated navigation, or a body of another version
DocNavigates ==
    /\ Running /\ budget > 0 /\ doc.ready
    /\ \E id \in 0..(IF _callback_id_counter = 0 THEN 0 ELSE _callback_id_counter - 1) :
       \E body \in {Undecodable, Json(getMathAndImage(doc)), Json(ForeignRaster)} :
           /\ [id |-> id, body |-> body] \notin requests
           /\ Commit(Spend([Begin("navigate") EXCEPT
                               !.requests = @ \cup {[id |-> id, body |-> body]}]))

\* WebKit hands the oldest submitted script to the document and reports back
ScriptDone ==
    /\ Running /\ js_queue # <<>>
    /\ LET entry == Head(js_queue)
           s0 == [Begin("script_done") EXCEPT
                     !.js_queue = Tail(@), !.ev.js = entry.js,
                     !.ev.retried = entry.retried, !.ev.ok = doc.ready,
                     !.push_log = IF entry.js.kind # "push" \/ ~Logging THEN @
                                  ELSE IF doc.ready
                                  THEN [@ EXCEPT !.landed = Append(@, entry.js)]
                                  ELSE [@ EXCEPT !.failed = TRUE]]
       IN  IF doc.ready THEN Commit(done_callback(Execute(s0, entry.js), entry, FALSE))
           ELSE Commit(done_callback(s0, entry, TRUE))

\* a 200 ms timer of a failed _run_javascript_until_succeeds expires
TimerFire ==
    /\ Running /\ timers # <<>>
    /\ LET js == Head(timers)
           s0 == [Begin("timer") EXCEPT !.timers = Tail(@), !.ev.js = js]
           s1 == _run_javascript_until_succeeds(s0, js)
       IN  Commit([s1 EXCEPT !.js_queue[Len(s1.js_queue)].retried = TRUE])

\* the URI scheme handler is called for a request of the document
Deliver ==
    /\ Running
    /\ \E request \in requests :
       LET known == request.body.json_ok /\ request.id \in DOMAIN _callback_dict
           callback == IF known THEN _callback_dict[request.id].callback ELSE "none"
       IN  \E od \in (IF callback = "open" THEN OpenDialogInputs ELSE {NoOpenDialog}) :
           \E ud \in (IF callback = "openurl" THEN UrlDialogInputs ELSE {NoUrlDialog}) :
               Commit(_handle_data_from_javascript(
                   [Begin("deliver") EXCEPT !.requests = @ \ {request},
                                            !.ev.request = request],
                   request, Input("NONE", NoSaveDialog, od, ud)))

\* ------------------------------------------------------------------ specification
NoArgs == [filetype |-> None, math |-> <<>>, image_string |-> <<>>, image_dataurl |-> <<>>,
           given |-> NoFile]
NoResult == [write |-> None, read |-> ReadError(None)]

\* main(): the application, its window and its view have been constructed; the
\* page is loading and the init script has been submitted
Init ==
    /\ _callback_dict = <<>>
    /\ _callback_id_counter = 0
    /\ js_queue = <<[js |-> InitJs, done |-> "retry", retried |-> FALSE]>>
    /\ timers = <<>>
    /\ requests = {}
    /\ doc = [ready |-> FALSE, hooks |-> 0, use_local_storage |-> TRUE,
              math |-> <<>>, image |-> <<>>, title |-> "MathPaste"]
    /\ _current_filename = None
    /\ _current_filetype = None
    /\ _saved = TRUE
    /\ title = [name |-> "New math", paren |-> <<>>]
    /\ alive = TRUE
    /\ fs = InitialFiles
    /\ budget = MaxOps
    /\ ev = Ev0
    /\ invoked = <<>>
    /\ push_log = NoPushes
    /\ args = NoArgs
    /\ pc = "gui"
    /\ result = NoResult

Next ==
    \/ on_save
    \/ on_saveas
    \/ on_open
    \/ on_openurl
    \/ _on_user_wants_to_close_the_window
    \/ on_quit
    \/ do_open
    \/ DocLoaded
    \/ DocEdit
    \/ DocNavigates
    \/ ScriptDone
    \/ TimerFire
    \/ Deliver

Spec == Init /\ [][Next]_vars

\* WebKit completes every submitted script and the main loop fires every expired
\* timer
FairSpec == Spec /\ WF_vars(ScriptDone) /\ WF_vars(TimerFire)

\* the application again, its history kept: the pushes in push_log, the file of
\* each save with its continuation
PushInit ==
    /\ _callback_dict = <<>>
    /\ _callback_id_counter = 0
    /\ js_queue = <<[js |-> InitJs, done |-> "retry", retried |-> FALSE]>>
    /\ timers = <<>>
    /\ requests = {}
    /\ doc = [ready |-> FALSE, hooks |-> 0, use_local_storage |-> TRUE,
              math |-> <<>>, image |-> <<>>, title |-> "MathPaste"]
    /\ _current_filename = None
    /\ _current_filetype = None
    /\ _saved = TRUE
    /\ title = [name |-> "New math", paren |-> <<>>]
    /\ alive = TRUE
    /\ fs = InitialFiles
    /\ budget = MaxOps
    /\ ev = Ev0
    /\ invoked = <<>>
    /\ push_log = NoPushes
    /\ args = NoArgs
    /\ pc = "pushes"
    /\ result = NoResult

PushSpec == PushInit /\ [][Next]_vars

\* ------------------------------------------------------------------ codec harness
\* write_mathpaste_file on drawn arguments, or a file that is already there, then
\* read_mathpaste_file of the result
\* the characters of the texts written alone ('P', 'K', control characters, line
\* ends, a non-ASCII letter, a lone surrogate) and of those written with a drawing
CodecChars == {3, 4, 10, 13, 75, 80, 233, 55296}
ZipChars == {13, 120, 233, 55296}

\* base64.b64encode, which the document's canvas.toDataURL() applies to the PNG
B64Char(i) ==
    IF i < 26 THEN 65 + i
    ELSE IF i < 52 THEN 71 + i
    ELSE IF i < 62 THEN i - 4
    ELSE IF i = 62 THEN 43
    ELSE 47

RECURSIVE b64encode(_)
b64encode(b) ==
    IF b = <<>> THEN <<>>
    ELSE IF Len(b) = 1
    THEN <<B64Char(b[1] \div 4), B64Char((b[1] % 4) * 16), 61, 61>>
    ELSE IF Len(b) = 2
    THEN <<B64Char(b[1] \div 4), B64Char((b[1] % 4) * 16 + b[2] \div 16),
           B64Char((b[2] % 16) * 4), 61>>
    ELSE <<B64Char(b[1] \div 4), B64Char((b[1] % 4) * 16 + b[2] \div 16),
           B64Char((b[2] % 16) * 4 + b[3] \div 64), B64Char(b[3] % 64)>>
         \o b64encode(SubSeq(b, 4, Len(b)))

\* the PNG bytes of the rasters drawn, and 'data:image/png;base64,' + base64(bytes)
PngBytes == {<<>>, <<105>>, <<0, 255>>, <<137, 80, 78, 71>>}
RasterOf(bytes) == PngPrefix \o <<Comma>> \o b64encode(bytes)

\* image_dataurl arguments: none, the well-formed ones, another media type, a
\* payload with a character missing, a second comma
CodecRasters ==
    {<<>>} \cup {RasterOf(b) : b \in PngBytes}
    \cup {<<100, 97, 116, 97, 58, 105, 109, 97, 103, 101, 47, 106, 112, 103,
            59, 98, 97, 115, 101, 54, 52, Comma, 97, 81, 61, 61>>,
          PngPrefix \o <<Comma, 97, 81, 61>>,
          RasterOf(<<105>>) \o <<Comma>>}

\* image_string arguments: nothing drawn, ASCII drawing data, drawing data that
\* is not ASCII
CodecDrawings == {<<>>, <<105>>, <<105, 44, 50>>, <<233>>}

\* files that are on the disk before anything is written
GivenFiles ==
    {RawFile(b) : b \in SeqsUpTo({3, 4, 13, 75, 80, 233}, MaxLen)}
    \cup {ZipFile(<<>>),
          ZipFile([n \in {"readme.txt"} |-> <<120>>]),
          ZipFile([n \in {"drawing-data.txt", "drawing.png"} |-> <<105>>]),
          ZipFile([n \in {"math.txt"} |-> <<120, 13, 10>>]),
          ZipFile([n \in {"math.txt"} |-> <<233>>]),
          ZipFile([n \in {"math.txt"} |-> Encrypted]),
          ZipFile([n \in {"math.txt", "drawing-data.txt"} |->
                      IF n = "math.txt" THEN <<120>> ELSE <<105>>]),
          ZipFile([n \in {"math.txt", "drawing-data.txt"} |->
                      IF n = "math.txt" THEN <<120>> ELSE <<233>>])}

CodecArgs ==
    {[filetype |-> TEXT, math |-> m, image_string |-> <<>>, image_dataurl |-> <<>>,
      given |-> NoFile] : m \in SeqsUpTo(CodecChars, MaxLen)}
    \cup {[filetype |-> ZIP, math |-> m, image_string |-> i, image_dataurl |-> u,
           given |-> NoFile] :
             m \in SeqsUpTo(ZipChars, MaxZipLen), i \in CodecDrawings, u \in CodecRasters}
    \cup {[filetype |-> TEXT, math |-> m, image_string |-> i,
           image_dataurl |-> IF i = <<>> THEN <<>> ELSE RasterOf(<<105>>), given |-> NoFile] :
             m \in SeqsUpTo(ZipChars, MaxZipLen), i \in CodecDrawings}
    \cup {[filetype |-> None, math |-> <<>>, image_string |-> <<>>, image_dataurl |-> <<>>,
           given |-> f] : f \in GivenFiles}

CodecInit ==
    /\ _callback_dict = <<>>
    /\ _callback_id_counter = 0
    /\ js_queue = <<>>
    /\ timers = <<>>
    /\ requests = {}
    /\ doc = [ready |-> FALSE, hooks |-> 0, use_local_storage |-> TRUE,
              math |-> <<>>, image |-> <<>>, title |-> "MathPaste"]
    /\ _current_filename = None
    /\ _current_filetype = None
    /\ _saved = TRUE
    /\ title = [name |-> "New math", paren |-> <<>>]
    /\ alive = TRUE
    /\ fs = InitialFiles
    /\ budget = 0
    /\ ev = Ev0
    /\ invoked = <<>>
    /\ push_log = NoPushes
    /\ args \in CodecArgs
    /\ pc = "start"
    /\ result = NoResult

CodecWrite ==
    /\ pc = "start"
    /\ args.given = NoFile
    /\ LET w == write_mathpaste_file(fs, "a", args.filetype, args.math,
                                     args.image_string, args.image_dataurl)
       IN  /\ fs' = w.files
           /\ result' = [result EXCEPT !.write = w.status]
    /\ pc' = "written"
    /\ UNCHANGED <<_callback_dict, _callback_id_counter, js_queue, timers, requests, doc,
                   _current_filename, _current_filetype, _saved, title, alive, budget,
                   ev, invoked, push_log, args>>

CodecRead ==
    /\ pc = "written"
    /\ result' = [result EXCEPT !.read = read_mathpaste_file(fs, "a")]
    /\ pc' = "read"
    /\ UNCHANGED <<_callback_dict, _callback_id_counter, js_queue, timers, requests, doc,
                   _current_filename, _current_filetype, _saved, title, alive, fs, budget,
                   ev, invoked, push_log, args>>

\* the file to read is one that some other program left at the path
CodecGiven ==
    /\ pc = "start"
    /\ args.given # NoFile
    /\ fs' = [fs EXCEPT !["a"] = args.given]
    /\ result' = [result EXCEPT !.write = "given"]
    /\ pc' = "written"
    /\ UNCHANGED <<_callback_dict, _callback_id_counter, js_queue, timers, requests, doc,
                   _current_filename, _current_filetype, _saved, title, alive, budget,
                   ev, invoked, push_log, args>>

CodecNext == CodecWrite \/ CodecGiven \/ CodecRead

CodecSpec == CodecInit /\ [][CodecNext]_vars

\* ------------------------------------------------------------------ decide-policy
\* 'https://akuli.github.io/mathpaste/'
MATHPASTE_URL ==
    <<104, 116, 116, 112, 115, 58, 47, 47, 97, 107, 117, 108, 105, 46, 103, 105,
          116, 104, 117, 98, 46, 105, 111, 47, 109, 97, 116, 104, 112, 97, 115,
          116, 101, 47>>
\* 'mathpaste-gtk-data://'
DataScheme ==
    <<109, 97, 116, 104, 112, 97, 115, 116, 101, 45, 103, 116, 107, 45, 100, 97,
          116, 97, 58, 47, 47>>
Hash == 35

\* WebKit2.PolicyDecisionType
DecisionTypes == {"NAVIGATION_ACTION", "NEW_WINDOW_ACTION", "RESPONSE"}

\* mutant: everything that starts with MATHPASTE_URL stays in the view
_webbrowser_link_opener_any_path(uri, decision_type) ==
    IF /\ decision_type = "NAVIGATION_ACTION"
       /\ ~(\/ StartsWith(uri, MATHPASTE_URL)
            \/ StartsWith(uri, DataScheme))
    THEN [opened |-> <<uri>>, ignored |-> TRUE]
    ELSE [opened |-> <<>>, ignored |-> FALSE]

\* _webbrowser_link_opener(view, decision, decision_type): the URIs given to
\* webbrowser.open, and whether decision.ignore() was called
_webbrowser_link_opener(uri, decision_type) ==
    IF /\ decision_type = "NAVIGATION_ACTION"
       /\ ~(\/ uri = MATHPASTE_URL
            \/ StartsWith(uri, MATHPASTE_URL \o <<Hash>>)
            \/ StartsWith(uri, DataScheme))
    THEN [opened |-> <<uri>>, ignored |-> TRUE]
    ELSE [opened |-> <<>>, ignored |-> FALSE]

\* the URIs the document asks for: a beginning and what follows it
UriHeads ==
    {MATHPASTE_URL, SubSeq(MATHPASTE_URL, 1, Len(MATHPASTE_URL) - 1),
     SubSeq(MATHPASTE_URL, 9, Len(MATHPASTE_URL)),
     DataScheme, SubSeq(DataScheme, 1, Len(DataScheme) - 1),
     \* 'https://example.com/'
     <<104, 116, 116, 112, 115, 58, 47, 47, 101, 120, 97, 109, 112, 108, 101, 46,
       99, 111, 109, 47>>}
UriTails == SeqsUpTo({Hash, 47, 120}, MaxTail)

PolicyInit ==
    /\ _callback_dict = <<>>
    /\ _callback_id_counter = 0
    /\ js_queue = <<>>
    /\ timers = <<>>
    /\ requests = {}
    /\ doc = [ready |-> TRUE, hooks |-> 0, use_local_storage |-> TRUE,
              math |-> <<>>, image |-> <<>>, title |-> "MathPaste"]
    /\ _current_filename = None
    /\ _current_filetype = None
    /\ _saved = TRUE
    /\ title = [name |-> "New math", paren |-> <<>>]
    /\ alive = TRUE
    /\ fs = InitialFiles
    /\ budget = 0
    /\ ev = Ev0
    /\ invoked = <<>>
    /\ push_log = NoPushes
    /\ args \in {[head |-> h, tail |-> tl, decision_type |-> d] :
                    h \in UriHeads, tl \in UriTails, d \in DecisionTypes}
    /\ pc = "requested"
    /\ result = [opened |-> <<>>, ignored |-> FALSE]

\* the view emits decide-policy for the request
decide_policy ==
    /\ pc = "requested"
    /\ result' = _webbrowser_link_opener(args.head \o args.tail, args.decision_type)
    /\ pc' = "decided"
    /\ UNCHANGED <<_callback_dict, _callback_id_counter, js_queue, timers, requests, doc,
                   _current_filename, _current_filetype, _saved, title, alive, fs, budget,
                   ev, invoked, push_log, args>>

PolicyNext == decide_policy

PolicySpec == PolicyInit /\ [][PolicyNext]_vars

\* ------------------------------------------------------------------ claims
Range(f) == {f[i] : i \in DOMAIN f}

\* the step just taken ran this handler
Ran(handler) == ev.handler = handler

\* the step just taken invoked a continuation
ContinuationInvoked == Ran("deliver") /\ ev.cont.tag # -1

\* C1: whichever of several outstanding pulls is answered first, the continuation
\* that runs is the one registered under the id the response carries, and it is
\* given the state object of that response.
C1_OwnContinuation ==
    ContinuationInvoked =>
        /\ ev.cont.tag = ev.request.id
        /\ ev.cont.id = ev.request.id
        /\ ev.cont.obj = ev.request.body.obj

\* two pulls were outstanding and the later one has been answered first
C1_Witness ==
    /\ ContinuationInvoked
    /\ ev.cont.tag = 1
    /\ 0 \in DOMAIN _callback_dict
    /\ \A r \in requests : r.id # 1

\* C2: a continuation is invoked at most once; a decodable response whose id is
\* registered invokes it in that very step and removes the registration; an id
\* whose continuation has run is not in _callback_dict, so a second response
\* with that id invokes nothing.
C2_ExactlyOnce ==
    /\ [](\A i, j \in DOMAIN invoked : invoked[i] = invoked[j] => i = j)
    /\ [](\A id \in Range(invoked) : id \notin DOMAIN _callback_dict)
    /\ [][Ran("deliver")' =>
            LET r == ev'.request
            IN  IF r.body.json_ok /\ r.id \in DOMAIN _callback_dict
                THEN /\ invoked' = Append(invoked, r.id)
                     /\ r.id \notin DOMAIN _callback_dict'
                     /\ DOMAIN _callback_dict' = DOMAIN _callback_dict \ {r.id}
                ELSE /\ invoked' = invoked
                     /\ _callback_dict' = _callback_dict
                     /\ ev'.cont = NoCont]_vars

\* a second response with the id of a continuation that has already run
C2_Witness ==
    /\ Ran("deliver")
    /\ ev.raised = "KeyError"
    /\ ev.request.body.json_ok
    /\ ev.request.id \in Range(invoked)

\* the scripts show_math_and_image can submit
PushScripts == {PushJs(m, i) : m \in Maths, i \in Drawings}

\* the push is on its way: submitted and not completed, or waiting for its timer
PendingPush(js) ==
    \/ \E i \in DOMAIN js_queue : js_queue[i].js = js /\ js_queue[i].done = "retry"
    \/ \E i \in DOMAIN timers : timers[i] = js

\* the document has just run the push
Landed(js) == Ran("script_done") /\ ev.js = js /\ ev.ok /\ doc.math = js.math /\ doc.image = js.image

\* C3: a push that fails because the document is not ready sets one timer with the
\* same script, and nothing is shown or raised; the timer resubmits that script;
\* once the document is ready every pending push is run by the document (unless
\* the window is closed first).
C3_PushRetried ==
    /\ [][(Ran("script_done")' /\ ev'.js.kind = "push" /\ ~doc.ready) =>
            /\ timers' = Append(timers, ev'.js)
            /\ ev'.js = Head(js_queue).js
            /\ ev'.shown = <<>> /\ ev'.raised = None /\ ev'.calls = <<>>
            /\ doc' = doc /\ _saved' = _saved /\ alive' = alive]_vars
    /\ [][Ran("timer")' =>
            /\ timers' = Tail(timers)
            /\ js_queue' = Append(js_queue, [js |-> Head(timers), done |-> "retry",
                                             retried |-> TRUE])]_vars
    /\ [](\A i \in DOMAIN js_queue : js_queue[i].js.kind = "push" => js_queue[i].js \in PushScripts)
    /\ \A js \in PushScripts : (doc.ready /\ PendingPush(js)) ~> (Landed(js) \/ ~alive)

\* a push that failed, waited for its timer and was resubmitted has landed
C3_Witness ==
    /\ Ran("script_done") /\ ev.js.kind = "push" /\ ev.ok /\ ev.retried
    /\ doc.math = ev.js.math /\ doc.image = ev.js.image

\* C4: every request the scheme handler is called for is answered with
\* request.finish, whatever the id and the body are.
C4_AlwaysAnswered == Ran("deliver") => ev.finished

\* C5: every edit in the document runs change_callback, so that the window is
\* marked as modified.
C5_EveryEditNotified == Ran("edit") => (ev.notified >= 1 /\ ~_saved)

\* the pull of a registered continuation is still on its way to the document, or
\* its answer on its way back
PullInFlight(id) ==
    \/ \E i \in DOMAIN js_queue : js_queue[i].js = PullJs(id)
    \/ \E r \in requests : r.id = id

\* C9: a save that has a target file ends with the file written or with an error
\* dialog: its continuation never stays registered with nothing left that could
\* run it or report the failure.
C9_SaveNeverStranded ==
    alive => \A id \in DOMAIN _callback_dict : PullInFlight(id)

\* C10: writing mathText as TEXT and reading the file back gives
\* (TEXT, mathText, '').
C10_TextRoundTrip ==
    (pc = "read" /\ args.filetype = TEXT /\ args.image_string = <<>>) =>
        /\ result.write = "ok"
        /\ result.read = ReadResult("ok", TEXT, args.math, <<>>)

\* the answer the user gave in the dialog of this kind the handler ran, "NONE"
\* when it ran none
Answer(e, kind) ==
    IF \E i \in DOMAIN e.shown : e.shown[i].dialog = kind
    THEN e.shown[CHOOSE i \in DOMAIN e.shown : e.shown[i].dialog = kind].response
    ELSE "NONE"

Dialogs(e, kind) == SelectSeq(e.shown, LAMBDA d : d.dialog = kind)

\* the handlers that go through save_if_user_wants_to, and the callback each gives it
PromptHandlers == {"on_open", "on_openurl", "delete-event"}
CallbackOf(handler) ==
    CASE handler = "on_open" -> "open"
      [] handler = "on_openurl" -> "openurl"
      [] OTHER -> "destroy"

\* what write_mathpaste_file answers for the window's current file and a state object
WriteStatus(obj) ==
    write_mathpaste_file(fs, _current_filename, _current_filetype, obj.math,
                         obj.imageString, obj.imageDataUrl).status

\* C6: save_if_user_wants_to(callback) calls callback, once, in the same handler
\* exactly when the window is saved or the user answers No; on Yes it only
\* registers a save that carries callback, and callback then runs exactly when
\* that save's continuation runs and the write succeeds; on Cancel (of the
\* question or of the file dialog) and on a failed write it never runs.  The
\* window is destroyed only by a callback called this way (or by quitting).
C6_CallbackCases ==
    [][/\ (ev'.handler \in PromptHandlers =>
             LET cb == CallbackOf(ev'.handler)
                 q == Answer(ev', "question")
                 saves == q = "YES" /\ (_current_filename # None \/ Answer(ev', "save_as") = "OK")
             IN  /\ (_saved <=> q = "NONE")
                 /\ ev'.calls = IF _saved \/ q = "NO" THEN <<cb>> ELSE <<>>
                 /\ IF saves
                    THEN /\ DOMAIN _callback_dict' = DOMAIN _callback_dict \cup {_callback_id_counter}
                         /\ _callback_dict'[_callback_id_counter].callback = cb
                    ELSE _callback_dict' = _callback_dict)
       /\ (Ran("deliver")' =>
             ev'.calls = IF ev'.cont.tag # -1 /\ WriteStatus(ev'.cont.obj) = "ok"
                         THEN <<_callback_dict[ev'.request.id].callback>>
                         ELSE <<>>)
       /\ (ev'.handler \notin PromptHandlers \cup {"deliver"} => ev'.calls = <<>>)
       /\ ((alive /\ ~alive') <=> (Ran("on_quit")' \/ ev'.calls = <<"destroy">>))]_vars

\* the user answered Yes to the question of a close request, the save succeeded
\* and the window has been destroyed by the save's continuation
C6_Witness ==
    /\ Ran("deliver") /\ ev.cont.tag # -1 /\ ev.ok
    /\ ev.calls = <<"destroy">>
    /\ ~alive

\* C7: when the continuation of a save runs and write_mathpaste_file raises, one
\* error dialog for the current file is shown (str(e) for an OSError, the
\* generic message otherwise) and nothing else: _saved and the title keep their
\* values, no warning is shown, the save's callback is not called, and the
\* handler goes on to answer the request.
C7_FailedSave ==
    [][(Ran("deliver")' /\ ev'.cont.tag # -1 /\ WriteStatus(ev'.cont.obj) # "ok") =>
          /\ ev'.shown = <<Dialog("error", "save", _current_filename,
                                  IF WriteStatus(ev'.cont.obj) = "OSError" THEN "str(e)"
                                  ELSE "An unexpected error occurred.", "OK")>>
          /\ _saved' = _saved /\ title' = title
          /\ _current_filename' = _current_filename
          /\ _current_filetype' = _current_filetype
          /\ ev'.calls = <<>> /\ alive' = alive
          /\ ev'.raised = None /\ ev'.finished]_vars

\* a save of a modified window to a file that cannot be written has failed: the
\* window is still marked as modified
C7_Witness ==
    /\ Ran("deliver") /\ ev.cont.tag # -1 /\ ~ev.ok
    /\ ev.shown = <<Dialog("error", "save", "ro", "str(e)", "OK")>>
    /\ ~_saved
    /\ ev.finished

\* the path open_file was called with in the step just taken, None if it was not
OpenedPath(e) ==
    IF e.handler = "do_open" THEN e.path
    ELSE IF Answer(e, "open") = "OK" THEN Dialogs(e, "open")[1].filename
    ELSE None

OpenErrorMessage(status) ==
    CASE status = "OSError" -> "str(e)"
      [] status = "UnicodeError" -> "The text doesn't seem to be encoded in UTF-8."
      [] status = "BadZipFile" -> "The zip file seems to be damaged."
      [] status = "NotAMathPasteGtkZipFileError" ->
             "The zip file is not compatible with MathPaste GTK."
      [] OTHER -> "An unexpected error occurred."

\* C8: an open_file that fails shows one error dialog naming the path and
\* changes nothing else: no script is submitted and the current file, its type
\* and _saved are what they were when open_file was called (after a save that
\* preceded it in the same handler, _saved is True).  An open_file that succeeds
\* submits the push of the file's math and drawing data, makes (path, detected
\* type) the current file and sets _saved.
C8_OpenFile ==
    [][OpenedPath(ev') # None =>
          LET path == OpenedPath(ev')
              r == read_mathpaste_file(fs', path)
              after_save == Ran("deliver")'
          IN  IF r.status = "ok"
              THEN /\ js_queue' = Append(js_queue, [js |-> PushJs(r.math, r.image_string),
                                                    done |-> "retry", retried |-> FALSE])
                   /\ _current_filename' = path
                   /\ _current_filetype' = r.filetype
                   /\ _saved'
                   /\ title' = [name |-> path,
                                paren |-> IF r.filetype = TEXT THEN <<"text only">> ELSE <<>>]
                   /\ Dialogs(ev', "error") = <<>>
              ELSE /\ Dialogs(ev', "error") =
                          <<Dialog("error", "open", path, OpenErrorMessage(r.status), "OK")>>
                   /\ js_queue' = js_queue
                   /\ _current_filename' = _current_filename
                   /\ _current_filetype' = _current_filetype
                   /\ _saved' = (after_save \/ _saved)
                   /\ timers' = timers /\ doc' = doc /\ fs' = (IF after_save THEN fs' ELSE fs)
                   /\ (~after_save => title' = title /\ _callback_dict' = _callback_dict)]_vars

\* an open of a damaged zip file has failed while another file was the current one
C8_Witness ==
    /\ OpenedPath(ev) = "damaged.zip"
    /\ Dialogs(ev, "error") = <<Dialog("error", "open", "damaged.zip",
                                       "The zip file seems to be damaged.", "OK")>>
    /\ _current_filename = "text.txt"

IsAscii(text) == \A i \in 1..Len(text) : text[i] < 128

\* 'data:image/png;base64,' + base64(bytes)
ValidRaster(u) == \E b \in PngBytes : u = RasterOf(b)

\* C11: writing mathText, ASCII drawing data and a PNG data URL as ZIP and
\* reading the file back gives (ZIP, mathText, drawingVectorData).
C11_ZipRoundTrip ==
    (/\ pc = "read" /\ args.given = NoFile /\ args.filetype = ZIP
     /\ args.image_string # <<>> /\ IsAscii(args.image_string)
     /\ ValidRaster(args.image_dataurl)) =>
        /\ result.write = "ok"
        /\ result.read = ReadResult("ok", ZIP, args.math, args.image_string)

\* the archive a codec run has written
Written == fs["a"]

\* C12: a ZIP write that returns leaves an archive whose math.txt holds the
\* UTF-8 bytes of mathText; when drawingVectorData is empty that is its only
\* entry and the archive reads back as (ZIP, mathText, ''); otherwise it also
\* holds drawing-data.txt with the drawing data and drawing.png with the bytes
\* whose base64 text follows 'data:image/png;base64,'.
C12_ZipEntries ==
    (/\ pc \in {"written", "read"} /\ args.given = NoFile /\ args.filetype = ZIP
     /\ result.write = "ok") =>
        /\ Written.kind = "zip"
        /\ "math.txt" \in DOMAIN Written.entries
        /\ Written.entries["math.txt"] = Utf8Encode(args.math).bytes
        /\ (args.math = <<120, 233>> => Written.entries["math.txt"] = <<120, 195, 169>>)
        /\ IF args.image_string = <<>>
           THEN /\ DOMAIN Written.entries = {"math.txt"}
                /\ (pc = "read" => result.read = ReadResult("ok", ZIP, args.math, <<>>))
           ELSE /\ DOMAIN Written.entries = {"math.txt", "drawing-data.txt", "drawing.png"}
                /\ Written.entries["drawing-data.txt"] = args.image_string
                /\ \A b \in PngBytes :
                       args.image_dataurl = RasterOf(b) => Written.entries["drawing.png"] = b

\* math 'x' with nothing drawn was saved as ZIP and read back
C12_Witness ==
    /\ pc = "read" /\ args.given = NoFile /\ args.filetype = ZIP
    /\ args.math = <<120>> /\ args.image_string = <<>> /\ args.image_dataurl = <<>>
    /\ DOMAIN Written.entries = {"math.txt"} /\ Written.entries["math.txt"] = <<120>>
    /\ result.read = ReadResult("ok", ZIP, <<120>>, <<>>)

\* C13: a save to a text file that succeeds while the pulled imageString is not
\* empty leaves the UTF-8 bytes of the math alone in that file, touches no other
\* file, and shows the "Your drawing wasn't saved" warning once; a save to a
\* text file with an empty imageString and a save to a zip file show no warning.
C13_DrawingWarning ==
    [][(Ran("deliver")' /\ ev'.cont.tag # -1) =>
          LET obj == ev'.cont.obj
              warnings == Dialogs(ev', "warning")
          IN  IF _current_filetype = TEXT /\ obj.imageString # <<>> /\ WriteStatus(obj) = "ok"
              THEN /\ warnings = <<Dialog("warning", "save", _current_filename,
                                          "Your drawing wasn't saved", "OK")>>
                   /\ fs'[_current_filename] = RawFile(Utf8Encode(TextModeWrite(obj.math)).bytes)
                   /\ \A p \in Paths \ {_current_filename} : fs'[p] = fs[p]
              ELSE warnings = <<>>]_vars

\* math and a drawing were saved to a text file: the file holds the math, the
\* warning was shown
C13_Witness ==
    /\ Ran("deliver") /\ ev.cont.tag # -1 /\ ev.ok
    /\ ev.cont.obj.math = <<120>> /\ ev.cont.obj.imageString = <<105>>
    /\ _current_filetype = TEXT
    /\ fs[_current_filename] = RawFile(<<120>>)
    /\ Len(Dialogs(ev, "warning")) = 1

\* C14: reading a zip archive that has no entry named math.txt raises
\* NotAMathPasteGtkZipFileError.
C14_NoMathEntry ==
    (pc = "read" /\ Written.kind = "zip" /\ "math.txt" \notin DOMAIN Written.entries) =>
        result.read.status = "NotAMathPasteGtkZipFileError"

\* C15: a file whose first four bytes are not 50 4B 03 04 is read as TEXT, its
\* whole content being the math and the drawing data empty; a file that starts
\* with these four bytes is treated as a zip file.
C15_DetectionByMagic ==
    (pc = "read" /\ args.given.kind = "raw") =>
        IF Take(args.given.bytes, 4) = ZipMagic
        THEN result.read.filetype # TEXT
        ELSE /\ result.read.status = "ok"
             /\ result.read.filetype = TEXT
             /\ Utf8Encode(result.read.math) = [ok |-> TRUE, bytes |-> args.given.bytes]
             /\ result.read.image_string = <<>>

\* the URI of the request, and the three forms of URI that stay in the view
RequestedUri == args.head \o args.tail

AllowedUri ==
    LET n == Len(MATHPASTE_URL)
        k == Len(DataScheme)
    IN  \/ RequestedUri = MATHPASTE_URL
        \/ /\ Len(RequestedUri) > n
           /\ \A i \in 1..n : RequestedUri[i] = MATHPASTE_URL[i]
           /\ RequestedUri[n + 1] = Hash
        \/ /\ Len(RequestedUri) >= k
           /\ \A i \in 1..k : RequestedUri[i] = DataScheme[i]

\* C16: a navigation action whose URI is none of the three allowed forms is
\* given to webbrowser.open (once) and ignored in the view; a navigation action
\* to an allowed URI is neither given to the browser nor ignored.
C16_ExternalLinks ==
    (pc = "decided" /\ args.decision_type = "NAVIGATION_ACTION") =>
        IF AllowedUri
        THEN result = [opened |-> <<>>, ignored |-> FALSE]
        ELSE result = [opened |-> <<args.head \o args.tail>>, ignored |-> TRUE]

\* a navigation to a page under the MathPaste origin that is not the editor
\* has been handed to the browser
C16_Witness ==
    /\ pc = "decided" /\ args.decision_type = "NAVIGATION_ACTION"
    /\ args.head = MATHPASTE_URL /\ args.tail = <<120, 35>>
    /\ result.ignored /\ result.opened = <<MATHPASTE_URL \o <<120, 35>>>>

\* how often a script occurs among the submitted scripts, the timers, a history
InQueue(js) == Cardinality({i \in DOMAIN js_queue : js_queue[i].js = js})
InTimers(js) == Cardinality({i \in DOMAIN timers : timers[i] = js})
Times(history, js) == Cardinality({i \in DOMAIN history : history[i] = js})

NoPushOutstanding == \A js \in PushScripts : InQueue(js) = 0 /\ InTimers(js) = 0

\* C17: once every submitted push has landed, the push the document ran last is
\* the push that was submitted last.
C17_LastPushWins ==
    (push_log.submitted # <<>> /\ NoPushOutstanding) =>
        /\ push_log.landed # <<>>
        /\ push_log.landed[Len(push_log.landed)]
               = push_log.submitted[Len(push_log.submitted)]

\* C18: as long as no push has failed, the pushes the document has run are the
\* first of the submitted pushes, in the order of their submission.
C18_SubmissionOrder ==
    ~push_log.failed =>
        /\ Len(push_log.landed) <= Len(push_log.submitted)
        /\ push_log.landed = SubSeq(push_log.submitted, 1, Len(push_log.landed))

\* two different files were opened one after the other with the document ready;
\* both pushes have landed
C18_Witness ==
    /\ ~push_log.failed
    /\ Len(push_log.landed) = 2
    /\ push_log.landed[1] # push_log.landed[2]
    /\ push_log.landed = push_log.submitted

\* C19: every submitted push is in exactly one place: submitted and not yet
\* completed, waiting for its retry timer, or run by the document; so no
\* payload is run more often than it was submitted.  A failed submission of a
\* push appends one timer with the same script, a successful one none.
C19_OneOutstanding ==
    /\ [](\A js \in PushScripts :
             /\ Times(push_log.submitted, js)
                    = InQueue(js) + InTimers(js) + Times(push_log.landed, js)
             /\ Times(push_log.landed, js) <= Times(push_log.submitted, js))
    /\ [](\A i \in DOMAIN push_log.submitted : push_log.submitted[i] \in PushScripts)
    /\ [][(Ran("script_done")' /\ ev'.js.kind = "push") =>
            /\ ev'.js = Head(js_queue).js
            /\ js_queue' = Tail(js_queue)
            /\ timers' = IF ev'.ok THEN timers ELSE Append(timers, ev'.js)
            /\ push_log'.landed = IF ev'.ok THEN Append(push_log.landed, ev'.js)
                                  ELSE push_log.landed]_vars

\* a push has failed and waits for its one timer; nothing else of it is around
C19_Witness ==
    /\ Ran("script_done") /\ ev.js.kind = "push" /\ ~ev.ok
    /\ InTimers(ev.js) = 1 /\ InQueue(ev.js) = 0
    /\ Times(push_log.submitted, ev.js) = 1
    /\ Times(push_log.landed, ev.js) = 0

\* C20: a pull script is submitted once, when its continuation is registered;
\* when it fails nothing is scheduled, shown or invoked and every registration
\* stays; no timer ever carries a pull; a registration goes away only when a
\* request with its id is handled.
C20_PullNotRetried ==
    /\ [](\A i \in DOMAIN timers : timers[i].kind # "pull")
    /\ [](\A i \in DOMAIN js_queue :
             js_queue[i].js.kind = "pull" =>
                 /\ js_queue[i].done = "none"
                 /\ js_queue[i].js.id < _callback_id_counter
                 /\ InQueue(js_queue[i].js) = 1)
    /\ [][\A id \in 0..(_callback_id_counter' - 1) :
            InQueue(PullJs(id))' > InQueue(PullJs(id)) =>
                /\ id = _callback_id_counter
                /\ _callback_id_counter' = id + 1
                /\ DOMAIN _callback_dict' = DOMAIN _callback_dict \cup {id}]_vars
    /\ [][(Ran("script_done")' /\ ev'.js.kind = "pull" /\ ~ev'.ok) =>
            /\ js_queue' = Tail(js_queue)
            /\ timers' = timers
            /\ requests' = requests
            /\ _callback_dict' = _callback_dict
            /\ invoked' = invoked
            /\ ev'.shown = <<>> /\ ev'.calls = <<>>]_vars
    /\ [][\A id \in DOMAIN _callback_dict :
            (id \notin DOMAIN _callback_dict' \/ _callback_dict'[id] # _callback_dict[id]) =>
                /\ Ran("deliver")'
                /\ ev'.request.id = id
                /\ ev'.request \in requests
                /\ \A other \in DOMAIN _callback_dict \ {id} :
                       /\ other \in DOMAIN _callback_dict'
                       /\ _callback_dict'[other] = _callback_dict[other]]_vars

\* the script of one of two pending pulls has failed: both continuations are
\* still registered and nothing will run the failed one
C20_Witness ==
    /\ Ran("script_done") /\ ev.js.kind = "pull" /\ ~ev.ok
    /\ DOMAIN _callback_dict = {0, 1}
    /\ ev.js.id = 0
    /\ InQueue(PullJs(0)) = 0 /\ timers = <<InitJs>>
    /\ \A r \in requests : r.id # 0

\* C21: when the continuation of a save runs, the state object of the response
\* is written to the file, and in the format, that was the window's current
\* file when the save was requested; no other file changes.
C21_SaveTarget ==
    [][(Ran("deliver")' /\ ev'.cont.tag # -1) =>
          LET c == _callback_dict[ev'.request.id]
              obj == ev'.cont.obj
          IN  fs' = write_mathpaste_file(fs, c.target.filename, c.target.filetype,
                                         obj.math, obj.imageString,
                                         obj.imageDataUrl).files]_vars

\* the state objects the document's getMathAndImage can return
DocStates == {getMathAndImage([math |-> m, image |-> i]) : m \in Maths, i \in Drawings}

\* C22: when the continuation of a save gets a state object of the document,
\* writes the file and turns a window marked as modified into a saved one, the
\* file is what a save of the document's content of that moment writes.
C22_SavedIsCurrent ==
    [][(/\ Ran("deliver")' /\ ev'.cont.tag # -1 /\ ev'.cont.obj \in DocStates
        /\ ev'.ok /\ ~_saved /\ _saved') =>
          LET now == getMathAndImage(doc')
          IN  fs' = write_mathpaste_file(fs, _current_filename, _current_filetype,
                                         now.math, now.imageString,
                                         now.imageDataUrl).files]_vars

\* C23: a save_as whose write fails, or whose pull script fails so that no
\* response comes, leaves the window with the file name and type it had before
\* the save_as; a save_as cancelled in the file dialog changes neither of them
\* nor _saved.
C23_FailedSaveAs ==
    [][/\ (Ran("deliver")' /\ ev'.cont.tag # -1 /\ ~ev'.ok) =>
             LET c == _callback_dict[ev'.request.id]
             IN  c.replaced.chosen =>
                     /\ _current_filename' = c.replaced.filename
                     /\ _current_filetype' = c.replaced.filetype
       /\ (Ran("script_done")' /\ ev'.js.kind = "pull" /\ ~ev'.ok) =>
             LET c == _callback_dict[ev'.js.id]
             IN  c.replaced.chosen =>
                     /\ _current_filename' = c.replaced.filename
                     /\ _current_filetype' = c.replaced.filetype
       /\ (Ran("on_saveas")' /\ Answer(ev', "save_as") = "CANCEL") =>
             /\ _current_filename' = _current_filename
             /\ _current_filetype' = _current_filetype
             /\ _saved' = _saved]_vars

\* the step just taken called set_current_file: an open_file that read its file,
\* or a save_as whose file dialog was answered OK
FileWasSet(e, files) ==
    \/ OpenedPath(e) # None /\ read_mathpaste_file(files, OpenedPath(e)).status = "ok"
    \/ Answer(e, "save_as") = "OK"

\* C24: the window has a file name exactly when it has a file type; it starts
\* with neither and saved; name and type change only in a step that opens a
\* file or gets a file from the save dialog, and such a step leaves both set; a
\* name or type that is set never becomes None again; a save (requested
\* directly or by answering Yes to the question) runs the save dialog exactly
\* when there is no file name, that is when no step has set a file so far.
C24_FileNameAndType ==
    /\ (_current_filename = None /\ _current_filetype = None /\ _saved = TRUE)
    /\ []((_current_filename = None) <=> (_current_filetype = None))
    /\ [](_current_filename # None => _current_filetype \in FileType)
    /\ [][/\ (FileOf(St)' # FileOf(St) => FileWasSet(ev', fs'))
          /\ (FileWasSet(ev', fs') => _current_filename' # None /\ _current_filetype' # None)
          /\ (_current_filename # None => _current_filename' # None)
          /\ (_current_filetype # None => _current_filetype' # None)
          /\ ((Ran("on_save")' \/ (ev'.handler \in PromptHandlers
                                     /\ Answer(ev', "question") = "YES")) =>
                 ((Dialogs(ev', "save_as") # <<>>) <=> (_current_filename = None)))]_vars

\* Save in a window whose file was opened before: no dialog, the pull is
\* requested for the current file
C24_Witness ==
    /\ Ran("on_save") /\ ev.shown = <<>>
    /\ _current_filename = "text.txt" /\ _current_filetype = TEXT
    /\ _callback_id_counter - 1 \in DOMAIN _callback_dict
    /\ js_queue # <<>> /\ js_queue[Len(js_queue)].js = PullJs(_callback_id_counter - 1)

====
